---- MODULE Spec2Model ----
(***************************************************************************)
(* Model of src/wander/comms_external.c: the external bridge               *)
(* (handle_send_external) and the per-connection forwarding entry point    *)
(* (handle_external) of a wander overlay node.                             *)
(*                                                                         *)
(* One behaviour is one invocation of one of the two handlers.  Init draws *)
(* the handler and its inputs; each action is one statement group of the   *)
(* handler, in program order (pc).  The node's running flag is written by  *)
(* the shutdown orchestrator, which runs concurrently (Shutdown).          *)
(***************************************************************************)
EXTENDS Integers, Sequences, FiniteSets, TLC

(* ------------------------------ bounds -------------------------------- *)
\* longest path carried by a packet
MaxLen == 3
\* most successful reads the external peer is given before it closes
MaxChunks == 2
\* size of the receive buffer `response` (UINT16_MAX in the code, scaled)
BufSize == 3

\* node identifiers (u16 in the code)
NodeIds == {1, 2}
\* what an out-of-bounds read of a u16 path buffer may yield
AnyU16 == NodeIds \cup {0}
\* byte values; 0 is NUL
Byte == {0, 1}

Paths == UNION {[1..n -> NodeIds] : n \in 1..MaxLen}
\* what one recv may deliver: 1 .. UINT16_MAX - 1 bytes
Chunks == UNION {[1..n -> Byte] : n \in 1..(BufSize - 1)}

VARIABLES
    op,              \* which handler this invocation runs: "hse" or "he"
    pc,              \* position of the handler
    node,            \* struct node_t: node_id, running, routing_table
    mem,             \* heap of malloc'd u16 path buffers: address -> [live, data]
    packet,          \* handle_send_external's argument
    ext_sockfd,      \* "none" (not created), "open", "closed"
    pr_free_calls,   \* packet_route_free calls, by address of the path freed
    sent,            \* what send() was given
    response,        \* u8 response[UINT16_MAX]
    reversed,        \* u16 *reversed (address; 0 is NULL)
    seq_nr,          \* u32 seq_nr
    ret_packet,      \* struct wander_packet *ret_packet
    internal_packet, \* the wander_internal_packet the handler builds
    received,        \* chunks recv delivered, in order (history)
    resp_calls,      \* wander_create_response / wander_append_response calls
    send_calls,      \* node->send_func calls
    retval,          \* handle_send_external's return value: "none", "true", "false"
    path0,           \* contents of packet->pr->path at entry (history)
    io,              \* results of socket/connect/send, the running flag as last read
                     \* by the loop, recv calls started, recv having returned <= 0
    he               \* handle_external's locals and its collaborators' call log

vars == <<op, pc, node, mem, packet, ext_sockfd, pr_free_calls, sent, response,
          reversed, seq_nr, ret_packet, internal_packet, received, resp_calls,
          send_calls, retval, path0, io, he>>

hseVars == <<packet, ext_sockfd, pr_free_calls, sent, response, reversed, seq_nr,
             ret_packet, received, resp_calls, send_calls, retval, path0, io>>

(* ------------------------------ helpers ------------------------------- *)
NullRoute == [set |-> FALSE, len |-> 0, step |-> 0, path |-> 0]
NullWander == [null |-> TRUE, payload |-> <<>>]
NullInternal == [made |-> FALSE, payload |-> NullWander, pr |-> NullRoute,
                 prev_node_id |-> 0, dest_node_id |-> 0, is_response |-> FALSE]
Zeros == [i \in 1..BufSize |-> 0]

\* malloc of a path buffer holding data: the new heap (the address is Len of it)
Malloc(m, data) == Append(m, [live |-> TRUE, data |-> data])

\* packet_route_free(pr): releases pr->path (and the struct)
packet_route_free(m, pr) == [m EXCEPT ![pr.path].live = FALSE]

\* reverse_route(path, len): the exact reverse of the first len elements
reverse_route(path, len) == [i \in 1..len |-> path[len + 1 - i]]

\* C string held by a NUL-terminated byte buffer
RECURSIVE CStr(_)
CStr(buf) == IF buf = <<>> \/ Head(buf) = 0 THEN <<>>
             ELSE <<Head(buf)>> \o CStr(Tail(buf))

\* recv(fd, response, UINT16_MAX - 1, 0) delivering chunk c: overwrites a prefix
RecvInto(buf, c) == [i \in 1..BufSize |-> IF i <= Len(c) THEN c[i] ELSE buf[i]]

\* wander_create_response(internal_payload, response, seq_nr)
wander_create_response(buf, n) == [null |-> FALSE, payload |-> CStr(buf)]

\* wander_append_response(ret_packet, response, seq_nr)
wander_append_response(rp, buf, n) == [rp EXCEPT !.payload = @ \o CStr(buf)]

\* wander_internal_from_external(packet): pr unset, ids for the caller to set
wander_internal_from_external(wp) == [NullInternal EXCEPT !.made = TRUE, !.payload = wp]

(* -------------------------------- Init -------------------------------- *)
HeInit == [bytes_read |-> "unread", trace |-> <<>>, table_empty |-> "none",
           route |-> <<>>, slept |-> <<>>, attached |-> NullRoute,
           came_through |-> "none", bogo |-> "none", bogo_pr |-> NullRoute,
           bogo_path |-> <<>>, propagated_to |-> <<>>,
           shutdowns |-> 0, closes |-> 0, frees |-> 0, returned |-> FALSE]

IoInit == [socket |-> "none", connect |-> "none", send |-> "none",
           running_read |-> "none", recvs |-> 0, recv_end |-> FALSE]

Init ==
    /\ op \in {"hse", "he"}
    /\ pc = IF op = "hse" THEN "hse_socket" ELSE "he_recv"
    /\ \E id \in NodeIds, rt \in SUBSET {<<1, 2>>, <<2, 1, 2>>} :
          node = [node_id |-> id, running |-> TRUE,
                  routing_table |-> IF op = "he" THEN rt ELSE {}]
    /\ \E P \in Paths, r \in BOOLEAN :
          IF op = "hse"
          THEN /\ mem = <<[live |-> TRUE, data |-> P]>>
               /\ path0 = P
               /\ packet = [is_response |-> r,
                            pr |-> [set |-> TRUE, len |-> Len(P),
                                    step |-> Len(P) - 1, path |-> 1]]
          ELSE /\ mem = <<>>
               /\ path0 = <<>>
               /\ packet = [is_response |-> FALSE, pr |-> NullRoute]
    /\ ext_sockfd = "none"
    /\ pr_free_calls = <<>>
    /\ sent = [payload |-> "none", len |-> "none"]
    /\ response = Zeros
    /\ reversed = 0
    /\ seq_nr = 0
    /\ ret_packet = NullWander
    /\ internal_packet = NullInternal
    /\ received = <<>>
    /\ resp_calls = <<>>
    /\ send_calls = <<>>
    /\ retval = "none"
    /\ io = IoInit
    /\ he = HeInit

(* ----------------------- handle_send_external ------------------------- *)
Return(v) == /\ retval' = v
             /\ pc' = "done"

\* int ext_sockfd = socket(PF_INET, SOCK_STREAM, 0); if (ext_sockfd < 0) return false;
HSE_Socket ==
    /\ pc = "hse_socket"
    /\ \E ok \in BOOLEAN :
          /\ io' = [io EXCEPT !.socket = IF ok THEN "ok" ELSE "failed"]
          /\ IF ok THEN /\ ext_sockfd' = "open"
                        /\ pc' = "hse_connect"
                        /\ UNCHANGED retval
                   ELSE /\ Return("false")
                        /\ UNCHANGED ext_sockfd
    /\ UNCHANGED <<op, node, mem, packet, pr_free_calls, sent, response, reversed,
                   seq_nr, ret_packet, internal_packet, received, resp_calls,
                   send_calls, path0, he>>

\* if (connect(ext_sockfd, ...) < 0) return false;
HSE_Connect ==
    /\ pc = "hse_connect"
    /\ \E ok \in BOOLEAN :
          /\ io' = [io EXCEPT !.connect = IF ok THEN "ok" ELSE "failed"]
          /\ IF ok THEN /\ pc' = "hse_send"
                        /\ UNCHANGED retval
                   ELSE Return("false")
    /\ UNCHANGED <<op, node, mem, packet, ext_sockfd, pr_free_calls, sent, response,
                   reversed, seq_nr, ret_packet, internal_packet, received,
                   resp_calls, send_calls, path0, he>>

\* payload / len chosen by packet->is_response
SendArgs_Inner(is_response) ==
    [payload |-> "internal_payload->payload", len |-> "internal_payload->payload_len"]

SendArgs(is_response) ==
    IF is_response
    THEN [payload |-> "internal_payload", len |-> "packet->payload_len"]
    ELSE [payload |-> "internal_payload->payload", len |-> "internal_payload->payload_len"]

\* if (!packet->is_response) { receive and return the response }
AfterSend(is_response) == IF is_response THEN "hse_free" ELSE "hse_reverse"

\* if (send(ext_sockfd, payload, len, 0) < 0) return false; if (!packet->is_response) ...
HSE_Send ==
    /\ pc = "hse_send"
    /\ sent' = SendArgs(packet.is_response)
    /\ \E ok \in BOOLEAN :
          /\ io' = [io EXCEPT !.send = IF ok THEN "ok" ELSE "failed"]
          /\ IF ok THEN /\ pc' = AfterSend(packet.is_response)
                        /\ UNCHANGED retval
                   ELSE Return("false")
    /\ UNCHANGED <<op, node, mem, packet, ext_sockfd, pr_free_calls, response,
                   reversed, seq_nr, ret_packet, internal_packet, received,
                   resp_calls, send_calls, path0, he>>

\* the len argument of reverse_route(packet->pr->path, packet->pr->len)
ReverseLenArg_Short == packet.pr.len - 1
ReverseLenArg == packet.pr.len

\* memset(response, 0, ..); reversed = reverse_route(..); seq_nr = 0; ret_packet = NULL;
HSE_Reverse ==
    /\ pc = "hse_reverse"
    /\ response' = Zeros
    /\ mem' = Malloc(mem, reverse_route(mem[packet.pr.path].data, ReverseLenArg))
    /\ reversed' = Len(mem')
    /\ seq_nr' = 0
    /\ ret_packet' = NullWander
    /\ pc' = "hse_loop"
    /\ UNCHANGED <<op, node, packet, ext_sockfd, pr_free_calls, sent, internal_packet,
                   received, resp_calls, send_calls, retval, path0, io, he>>

\* while (node->running && ...): the read of the running flag
\* while (node->running && recv(..) > 0): recv is called only if running was read true
LoopNext_Unchecked(running) == "hse_recv"
LoopNext(running) == IF running THEN "hse_recv" ELSE "hse_wrap"

HSE_LoopCheck ==
    /\ pc = "hse_loop"
    /\ pc' = LoopNext(node.running)
    /\ io' = [io EXCEPT !.running_read = IF node.running THEN "true" ELSE "false",
                        !.recvs = IF LoopNext(node.running) = "hse_recv" THEN @ + 1 ELSE @]
    /\ UNCHANGED <<op, node, mem, packet, ext_sockfd, pr_free_calls, sent, response,
                   reversed, seq_nr, ret_packet, received, resp_calls, send_calls,
                   retval, path0, internal_packet, he>>

\* ... recv(ext_sockfd, response, UINT16_MAX - 1, 0) > 0
HSE_Recv ==
    /\ pc = "hse_recv"
    /\ \/ \E c \in Chunks :
             /\ Len(received) < MaxChunks
             /\ response' = RecvInto(response, c)
             /\ received' = Append(received, c)
             /\ pc' = "hse_chunk"
             /\ UNCHANGED io
       \/ /\ pc' = "hse_wrap"          \* peer closed (0) or recv failed (< 0)
          /\ io' = [io EXCEPT !.recv_end = TRUE]
          /\ UNCHANGED <<response, received>>
    /\ UNCHANGED <<op, node, mem, packet, ext_sockfd, pr_free_calls, sent, reversed,
                   seq_nr, ret_packet, internal_packet, resp_calls, send_calls,
                   retval, path0, he>>

\* seq_nr++ (a u32: it cannot wrap within MaxChunks reads)
NextSeqNr_Stuck(s) == s
NextSeqNr(s) == s + 1

\* which of create / append the loop body calls
IsFirstChunk(s) == s = 0

\* loop body: create on the first chunk, append on the later ones, seq_nr++
HSE_Chunk ==
    /\ pc = "hse_chunk"
    /\ IF IsFirstChunk(seq_nr)
       THEN /\ ret_packet' = wander_create_response(response, seq_nr)
            /\ resp_calls' = Append(resp_calls,
                   [fn |-> "wander_create_response", seq_nr |-> seq_nr,
                    buf |-> response, null_arg |-> FALSE])
       ELSE /\ ret_packet' = wander_append_response(ret_packet, response, seq_nr)
            /\ resp_calls' = Append(resp_calls,
                   [fn |-> "wander_append_response", seq_nr |-> seq_nr,
                    buf |-> response, null_arg |-> ret_packet.null])
    /\ seq_nr' = NextSeqNr(seq_nr)
    /\ pc' = "hse_loop"
    /\ UNCHANGED <<op, node, mem, packet, ext_sockfd, pr_free_calls, sent, response,
                   reversed, internal_packet, received, send_calls, retval, path0, io, he>>

\* internal_packet = wander_internal_from_external(ret_packet); with ret_packet
\* NULL the callee is handed a null pointer: it faults or wraps the null pointer
HSE_Wrap ==
    /\ pc = "hse_wrap"
    /\ \/ /\ internal_packet' = wander_internal_from_external(ret_packet)
          /\ pc' = "hse_init_route"
       \/ /\ ret_packet.null
          /\ pc' = "crashed"
          /\ UNCHANGED internal_packet
    /\ UNCHANGED <<op, node, mem, hseVars, he>>

\* internal_packet->pr = malloc(..); ->len = packet->pr->len; ->step = 1; ->path = reversed
ReturnRoute_Alias(len, rev) == [set |-> TRUE, len |-> len, step |-> 1, path |-> packet.pr.path]
ReturnRoute(len, rev) == [set |-> TRUE, len |-> len, step |-> 1, path |-> rev]

\* init route, prev_node_id, dest_node_id, is_response of the return packet
HSE_InitRoute ==
    /\ pc = "hse_init_route"
    /\ internal_packet' = [internal_packet EXCEPT
           !.pr = ReturnRoute(packet.pr.len, reversed),
           !.prev_node_id = node.node_id,
           !.dest_node_id = mem[packet.pr.path].data[1],
           !.is_response = TRUE]
    /\ pc' = "hse_log"
    /\ UNCHANGED <<op, node, mem, hseVars, he>>

\* LOG_INFO("... %s", ret_packet->payload): faults on a NULL ret_packet, or not
HSE_Log ==
    /\ pc = "hse_log"
    /\ \/ pc' = "hse_send_func"
       \/ /\ ret_packet.null
          /\ pc' = "crashed"
    /\ UNCHANGED <<op, node, mem, hseVars, internal_packet, he>>

\* pr->path[pr->step]: an index past the buffer reads whatever lies there
PathAt(m, pr) ==
    IF pr.step < Len(m[pr.path].data) THEN {m[pr.path].data[pr.step + 1]} ELSE AnyU16

\* node->send_func(internal_packet, internal_packet->pr->path[internal_packet->pr->step]);
HSE_SendFunc ==
    /\ pc = "hse_send_func"
    /\ \E to \in PathAt(mem, internal_packet.pr), ok \in BOOLEAN :
          send_calls' = Append(send_calls,
              [packet |-> internal_packet, path |-> mem[internal_packet.pr.path].data,
               to |-> to, ok |-> ok,
               in_bounds |-> internal_packet.pr.step < internal_packet.pr.len])
    /\ pc' = "hse_free"
    /\ UNCHANGED <<op, node, mem, packet, ext_sockfd, pr_free_calls, sent, response,
                   reversed, seq_nr, ret_packet, internal_packet, received,
                   resp_calls, retval, path0, io, he>>

\* packet_route_free(packet->pr);
HSE_Free ==
    /\ pc = "hse_free"
    /\ mem' = packet_route_free(mem, packet.pr)
    /\ pr_free_calls' = Append(pr_free_calls, packet.pr.path)
    /\ pc' = "hse_close"
    /\ UNCHANGED <<op, node, packet, ext_sockfd, sent, response, reversed, seq_nr,
                   ret_packet, internal_packet, received, resp_calls, send_calls,
                   retval, path0, io, he>>

\* close(ext_sockfd); return true;
HSE_Close ==
    /\ pc = "hse_close"
    /\ ext_sockfd' = "closed"
    /\ Return("true")
    /\ UNCHANGED <<op, node, mem, packet, pr_free_calls, sent, response, reversed,
                   seq_nr, ret_packet, internal_packet, received, resp_calls,
                   send_calls, path0, io, he>>

\* the shutdown orchestrator clears node->running at any time
Shutdown ==
    /\ node.running
    /\ pc \notin {"done", "crashed"}
    /\ node' = [node EXCEPT !.running = FALSE]
    /\ UNCHANGED <<op, pc, mem, hseVars, internal_packet, he>>

(* -------------------------- handle_external ---------------------------- *)
Log(name) == Append(he.trace, name)

\* route_table_empty(node->routing_table)
route_table_empty(rt) == rt = {}

\* route_to_packet_route(route): a packet-owned copy of the route, step = 0
route_to_packet_route(route, addr) ==
    [set |-> TRUE, len |-> Len(route), step |-> 0, path |-> addr]

\* if (bytes_read <= 0) goto cleanup;
AfterRecv_NoAbort(ok) == "he_wrap"
AfterRecv(ok) == IF ok THEN "he_wrap" ELSE "he_cleanup"

\* bytes_read = recv(data->connection, packet, ..); if (bytes_read <= 0) goto cleanup;
HE_Recv ==
    /\ pc = "he_recv"
    /\ \E ok \in BOOLEAN :
          /\ he' = [he EXCEPT !.bytes_read = IF ok THEN "positive" ELSE "none"]
          /\ pc' = AfterRecv(ok)
    /\ UNCHANGED <<op, node, mem, hseVars, internal_packet>>

\* internal_packet = wander_internal_from_external(packet); ->prev_node_id = node->node_id;
HE_Wrap ==
    /\ pc = "he_wrap"
    /\ internal_packet' =
          [wander_internal_from_external([null |-> FALSE, payload |-> <<>>])
             EXCEPT !.prev_node_id = node.node_id]
    /\ pc' = "he_lookup"
    /\ UNCHANGED <<op, node, mem, hseVars, he>>

\* if (!route_table_empty(node->routing_table)) ... else ...
HE_Lookup ==
    /\ pc = "he_lookup"
    /\ he' = [he EXCEPT !.trace = Log("route_table_empty"),
                        !.table_empty = IF route_table_empty(node.routing_table)
                                        THEN "true" ELSE "false"]
    /\ pc' = IF route_table_empty(node.routing_table)
             THEN "he_degenerate" ELSE "he_get_route"
    /\ UNCHANGED <<op, node, mem, hseVars, internal_packet>>

\* route_sleep(route) is the statement after get_random_route
AfterGetRoute_NoSleep == "he_to_packet_route"
AfterGetRoute == "he_sleep"

\* struct route_t *route = get_random_route(node->routing_table);
HE_GetRoute ==
    /\ pc = "he_get_route"
    /\ \E r \in node.routing_table :
          he' = [he EXCEPT !.trace = Log("get_random_route"), !.route = r]
    /\ pc' = AfterGetRoute
    /\ UNCHANGED <<op, node, mem, hseVars, internal_packet>>

\* route_sleep(route);
HE_Sleep ==
    /\ pc = "he_sleep"
    /\ he' = [he EXCEPT !.trace = Log("route_sleep"), !.slept = he.route]
    /\ pc' = "he_to_packet_route"
    /\ UNCHANGED <<op, node, mem, hseVars, internal_packet>>

\* pr = route_to_packet_route(route); internal_packet->pr = pr;
HE_ToPacketRoute ==
    /\ pc = "he_to_packet_route"
    /\ mem' = Malloc(mem, he.route)
    /\ internal_packet' = [internal_packet EXCEPT
           !.pr = route_to_packet_route(he.route, Len(mem'))]
    /\ he' = [he EXCEPT !.trace = Log("route_to_packet_route"),
                        !.attached = route_to_packet_route(he.route, Len(mem'))]
    /\ pc' = "he_use"
    /\ UNCHANGED <<op, node, hseVars>>

\* if (came_through) return;  /* path failed */ came_through = send_bogo(..)
AfterUse_Always(came_through) == "he_bogo"
AfterUse(came_through) == IF came_through THEN "done" ELSE "he_bogo"

\* bool came_through = use_packet_route(internal_packet, node): advances step and
\* delivers to path[step] through send_func; the result is the callee's to give
HE_Use ==
    /\ pc = "he_use"
    /\ internal_packet' = [internal_packet EXCEPT !.pr.step = @ + 1]
    /\ \E ok \in BOOLEAN :
          /\ he' = [he EXCEPT !.trace = Log("use_packet_route"),
                              !.came_through = IF ok THEN "true" ELSE "false",
                              !.returned = AfterUse(ok) = "done"]
          /\ pc' = AfterUse(ok)
    /\ UNCHANGED <<op, node, mem, hseVars>>

\* if (!came_through) propagate_failure(internal_packet, node);
AfterBogo_Always(came_through) == "he_propagate"
AfterBogo(came_through) == IF came_through THEN "he_cleanup" ELSE "he_propagate"

\* send_bogo(internal_packet, node): delivery to a random neighbour, result the callee's
send_bogo(ok) ==
    [he EXCEPT !.trace = Log("send_bogo"),
               !.bogo = IF ok THEN "true" ELSE "false",
               !.bogo_pr = internal_packet.pr,
               !.bogo_path = mem[internal_packet.pr.path].data]

\* came_through = send_bogo(internal_packet, node); (after the path failed)
HE_Bogo ==
    /\ pc = "he_bogo"
    /\ \E ok \in BOOLEAN :
          /\ he' = send_bogo(ok)
          /\ pc' = AfterBogo(ok)
    /\ UNCHANGED <<op, node, mem, hseVars, internal_packet>>

\* propagate_failure(internal_packet, node): notifies internal_packet->prev_node_id
propagate_failure ==
    [he EXCEPT !.trace = Log("propagate_failure"),
               !.propagated_to = Append(@, internal_packet.prev_node_id)]

\* propagate_failure(internal_packet, node); (both attempts failed)
HE_Propagate ==
    /\ pc = "he_propagate"
    /\ he' = propagate_failure
    /\ pc' = "he_cleanup"
    /\ UNCHANGED <<op, node, mem, hseVars, internal_packet>>

\* the single-element route of the empty-table branch
DegenerateRoute_Step1(addr) == [set |-> TRUE, len |-> 1, step |-> 1, path |-> addr]
DegenerateRoute(addr) == [set |-> TRUE, len |-> 1, step |-> 0, path |-> addr]

\* pr = malloc(..); pr->len = 1; pr->step = 0; pr->path = malloc(..); path[0] = node_id
HE_Degenerate ==
    /\ pc = "he_degenerate"
    /\ mem' = Malloc(mem, <<node.node_id>>)
    /\ internal_packet' = [internal_packet EXCEPT !.pr = DegenerateRoute(Len(mem'))]
    /\ pc' = "he_bogo_empty"
    /\ UNCHANGED <<op, node, hseVars, he>>

\* bool came_trough = send_bogo(internal_packet, node); if (!came_trough) { .. }
HE_BogoEmpty ==
    /\ pc = "he_bogo_empty"
    /\ \E ok \in BOOLEAN :
          /\ he' = send_bogo(ok)
          /\ pc' = IF ok THEN "he_cleanup" ELSE "he_propagate_empty"
    /\ UNCHANGED <<op, node, mem, hseVars, internal_packet>>

\* propagate_failure(internal_packet, node); (empty-table branch)
HE_PropagateEmpty ==
    /\ pc = "he_propagate_empty"
    /\ he' = propagate_failure
    /\ pc' = "he_cleanup"
    /\ UNCHANGED <<op, node, mem, hseVars, internal_packet>>

\* cleanup: shutdown(data->connection, SHUT_RDWR); close(data->connection); free(data);
HE_Cleanup ==
    /\ pc = "he_cleanup"
    /\ he' = [he EXCEPT !.shutdowns = @ + 1, !.closes = @ + 1, !.frees = @ + 1]
    /\ pc' = "done"
    /\ UNCHANGED <<op, node, mem, hseVars, internal_packet>>

handle_external ==
    \/ HE_Recv \/ HE_Wrap \/ HE_Lookup \/ HE_GetRoute \/ HE_Sleep
    \/ HE_ToPacketRoute \/ HE_Use \/ HE_Bogo \/ HE_Propagate
    \/ HE_Degenerate \/ HE_BogoEmpty \/ HE_PropagateEmpty \/ HE_Cleanup

handle_send_external ==
    \/ HSE_Socket \/ HSE_Connect \/ HSE_Send \/ HSE_Reverse \/ HSE_LoopCheck
    \/ HSE_Recv \/ HSE_Chunk \/ HSE_Wrap \/ HSE_InitRoute \/ HSE_Log
    \/ HSE_SendFunc \/ HSE_Free \/ HSE_Close

Next == handle_send_external \/ handle_external \/ Shutdown

Spec == Init /\ [][Next]_vars

\* handle_send_external's steps that do not wait for the external peer: the thread
\* running the handler takes them; recv returns only when the peer sends or closes
HseSteps ==
    \/ HSE_Socket \/ HSE_Connect \/ HSE_Send \/ HSE_Reverse \/ HSE_LoopCheck
    \/ HSE_Chunk \/ HSE_Wrap \/ HSE_InitRoute \/ HSE_Log
    \/ HSE_SendFunc \/ HSE_Free \/ HSE_Close

\* the receive loop never reads the route: the liveness check runs the handler on
\* the two-hop routes
LiveInit == Init /\ op = "hse" /\ Len(path0) = 2

LiveNext == handle_send_external \/ Shutdown

LiveSpec == LiveInit /\ [][LiveNext]_vars /\ WF_vars(HseSteps)

(* ------------------------------ claims -------------------------------- *)
Count(tr, name) == Cardinality({i \in DOMAIN tr : tr[i] = name})

First(tr, name) == CHOOSE i \in DOMAIN tr : tr[i] = name /\ \A j \in 1..(i - 1) : tr[j] # name

RECURSIVE Concat(_)
Concat(cs) == IF cs = <<>> THEN <<>> ELSE Head(cs) \o Concat(Tail(cs))

HseReturned == op = "hse" /\ pc = "done"
HeReturned == op = "he" /\ pc = "done"

\* C1: once handle_send_external has created the external socket, the socket is
\* closed when the operation returns, whichever way it returns.
C1_SocketClosedOnEveryExit ==
    (HseReturned /\ ext_sockfd # "none") => ext_sockfd = "closed"

\* C2: when handle_send_external returns, true or false, packet_route_free has been
\* called on packet->pr exactly once.
C2_RouteFreedOnceOnEveryExit ==
    HseReturned => pr_free_calls = <<packet.pr.path>>

\* C3: when route_table_empty is true, the packet carries the route len = 1,
\* step = 0, path = [node_id] from the moment send_bogo is due, send_bogo is invoked
\* on that route, and get_random_route, route_sleep, use_packet_route never are.
C3_EmptyTableGoesToBogo ==
    (op = "he" /\ he.table_empty = "true") =>
        /\ Count(he.trace, "get_random_route") = 0
        /\ Count(he.trace, "route_sleep") = 0
        /\ Count(he.trace, "use_packet_route") = 0
        /\ pc # "he_degenerate" =>
              /\ internal_packet.pr.len = 1
              /\ internal_packet.pr.step = 0
              /\ mem[internal_packet.pr.path].data = <<node.node_id>>
        /\ pc \notin {"he_degenerate", "he_bogo_empty"} =>
              /\ Count(he.trace, "send_bogo") = 1
              /\ he.bogo_pr.len = 1
              /\ he.bogo_pr.step = 0
              /\ he.bogo_path = <<node.node_id>>

C3_Witness ==
    /\ HeReturned
    /\ he.table_empty = "true"
    /\ he.bogo = "true"
    /\ he.bogo_path = <<node.node_id>>

\* C4: one invocation of handle_external invokes send_bogo at most once; it has
\* invoked it, when it is over, exactly if the routing table was found empty or
\* use_packet_route failed; after a successful use_packet_route it invokes neither
\* send_bogo nor propagate_failure and is over.
C4_BogoOnceOnFailure ==
    op = "he" =>
        /\ Count(he.trace, "send_bogo") <= 1
        /\ Count(he.trace, "use_packet_route") <= 1
        /\ pc = "done" =>
              (Count(he.trace, "send_bogo") = 1
                 <=> (he.table_empty = "true" \/ he.came_through = "false"))
        /\ he.came_through = "true" =>
              /\ Count(he.trace, "send_bogo") = 0
              /\ Count(he.trace, "propagate_failure") = 0
              /\ pc = "done"

C4_Witness ==
    /\ HeReturned
    /\ he.came_through = "false"
    /\ Count(he.trace, "send_bogo") = 1

\* C5: one invocation of handle_external invokes propagate_failure at most once,
\* exactly if send_bogo was invoked and failed, after send_bogo, and never after
\* a successful use_packet_route or send_bogo.
C5_PropagateOnceAfterFailedBogo ==
    op = "he" =>
        /\ Count(he.trace, "propagate_failure") <= 1
        /\ Count(he.trace, "propagate_failure") = 1 =>
              /\ he.bogo = "false"
              /\ First(he.trace, "send_bogo") < First(he.trace, "propagate_failure")
        /\ (pc = "done" /\ he.bogo = "false") => Count(he.trace, "propagate_failure") = 1
        /\ (he.came_through = "true" \/ he.bogo = "true") =>
              Count(he.trace, "propagate_failure") = 0

C5_Witness ==
    /\ HeReturned
    /\ he.came_through = "false"
    /\ he.bogo = "false"
    /\ Count(he.trace, "propagate_failure") = 1

\* C6: propagate_failure is never invoked for a packet whose prev_node_id, the
\* node the failure is addressed to, is the invoking node's own id.
C6_NeverAddressedToSelf ==
    \A i \in DOMAIN he.propagated_to : he.propagated_to[i] # node.node_id

\* C7: for a forward request with path P of length n that was sent, send_func is
\* called exactly once, with a return packet of path reverse(P), len n, step 1,
\* prev_node_id the local id, dest_node_id P[0], is_response true, addressed to
\* reversed[1] = P[n-2].
C7_ReturnPacket ==
    (op = "hse" /\ ~packet.is_response /\ pc \in {"done", "crashed"}
        /\ sent.payload # "none" /\ retval # "false") =>
        /\ Len(send_calls) = 1
        /\ LET c == send_calls[1]
               n == Len(path0)
           IN  /\ c.path = [i \in 1..n |-> path0[n + 1 - i]]
               /\ c.packet.pr.len = n
               /\ c.packet.pr.step = 1
               /\ c.packet.prev_node_id = node.node_id
               /\ c.packet.dest_node_id = path0[1]
               /\ c.packet.is_response
               /\ n >= 2
               /\ c.to = path0[n - 1]

\* C8: the k-th successful read (k = 0, 1, ..) is handed on with seq_nr = k, the
\* first by wander_create_response, the later ones by wander_append_response on
\* the response created, each with the buffer holding the chunk just read, none
\* skipped.
C8_ChunksSequenced ==
    op = "hse" =>
        /\ Len(resp_calls) = IF pc = "hse_chunk" THEN Len(received) - 1 ELSE Len(received)
        /\ \A k \in DOMAIN resp_calls :
              /\ resp_calls[k].seq_nr = k - 1
              /\ resp_calls[k].fn = IF k = 1 THEN "wander_create_response"
                                    ELSE "wander_append_response"
              /\ ~resp_calls[k].null_arg
              /\ SubSeq(resp_calls[k].buf, 1, Len(received[k])) = received[k]

C8_Witness ==
    /\ op = "hse"
    /\ Len(resp_calls) = 2
    /\ resp_calls[2].seq_nr = 1
    /\ received[1] # received[2]

\* C9: the response payload built from the chunks received is their concatenation
\* c0 || c1 || .. || ck, its length the sum of their lengths.
C9_PayloadIsConcatenation ==
    (op = "hse" /\ pc # "hse_chunk" /\ received # <<>>) =>
        /\ ret_packet.payload = Concat(received)
        /\ Len(ret_packet.payload) = Len(Concat(received))

C11_SendByDirection ==
    (op = "hse" /\ io.send # "none") =>
        /\ packet.is_response =>
              /\ sent = [payload |-> "internal_payload", len |-> "packet->payload_len"]
              /\ io.recvs = 0
              /\ received = <<>>
              /\ resp_calls = <<>>
              /\ reversed = 0
              /\ ~internal_packet.made
              /\ send_calls = <<>>
        /\ ~packet.is_response =>
              sent = [payload |-> "internal_payload->payload",
                      len |-> "internal_payload->payload_len"]

C11_Witness ==
    /\ HseReturned
    /\ packet.is_response
    /\ retval = "true"
    /\ sent.payload = "internal_payload"

SetupFailed == io.socket = "failed" \/ io.connect = "failed" \/ io.send = "failed"

\* C12: handle_send_external returns false exactly if socket, connect or send
\* failed, and then it has received nothing, built no return packet and not called
\* send_func; in every other case it returns true.
C12_ReturnValue ==
    (op = "hse" /\ pc \in {"done", "crashed"}) =>
        /\ retval = "false" <=> SetupFailed
        /\ SetupFailed => (io.recvs = 0 /\ ~internal_packet.made /\ send_calls = <<>>)
        /\ ~SetupFailed => retval = "true"

InLoop == pc \in {"hse_loop", "hse_recv", "hse_chunk"}

LoopOver == pc \in {"hse_wrap", "hse_init_route", "hse_log", "hse_send_func",
                    "hse_free", "hse_close", "done", "crashed"}

\* C13 as stated, its conclusion read generously (the call ends, by returning or
\* by the fault of C17): if the peer eventually closes or running eventually
\* becomes false, handle_send_external eventually ends.
C13_EndsOncePeerClosesOrRunningFalse ==
    (<>(io.recv_end) \/ <>(~node.running)) => <>(pc \in {"done", "crashed"})

\* C13 (amended): running is read before every recv and no recv starts once it is
\* read false; every chunk a recv delivers is handed on, whatever running is by
\* then; the loop is over once recv returns <= 0 or running is read false; and if
\* every recv returns (the peer, which closes after finitely many chunks, sends or
\* closes), the loop is eventually left.
C13_LoopSafety ==
    /\ pc = "hse_recv" => io.running_read = "true"
    /\ io.running_read = "false" => LoopOver
    /\ io.recv_end => LoopOver
    /\ io.recvs = Len(received) + (IF io.recv_end THEN 1 ELSE 0)
                                + (IF pc = "hse_recv" THEN 1 ELSE 0)
    /\ pc \notin {"hse_chunk"} => Len(resp_calls) = Len(received)
    /\ LoopOver /\ sent.payload # "none" /\ io.send = "ok" /\ ~packet.is_response =>
          (io.recv_end \/ io.running_read = "false")

C13_LoopTerminates ==
    /\ []C13_LoopSafety
    /\ ([]<>(pc # "hse_recv")) => (InLoop ~> LoopOver)

C13_Witness ==
    /\ op = "hse"
    /\ pc = "hse_wrap"
    /\ io.running_read = "false"
    /\ ~io.recv_end
    /\ Len(resp_calls) = 2

HeOrder == <<"route_table_empty", "get_random_route", "route_sleep",
             "route_to_packet_route", "use_packet_route">>

\* C14: with a non-empty routing table handle_external calls get_random_route,
\* then route_sleep on that route, then attaches the PacketRoute made from that
\* route with step = 0, and only then use_packet_route, once.
C14_RouteOrder ==
    (op = "he" /\ he.table_empty = "false") =>
        /\ Len(he.trace) >= Len(HeOrder) =>
              SubSeq(he.trace, 1, Len(HeOrder)) = HeOrder
        /\ Len(he.trace) < Len(HeOrder) =>
              he.trace = SubSeq(HeOrder, 1, Len(he.trace))
        /\ Count(he.trace, "use_packet_route") <= 1
        /\ pc = "done" => Count(he.trace, "use_packet_route") = 1
        /\ Count(he.trace, "use_packet_route") = 1 =>
              /\ he.route \in node.routing_table
              /\ he.slept = he.route
              /\ he.attached.step = 0
              /\ he.attached.len = Len(he.route)
              /\ mem[he.attached.path].data = he.route
              /\ internal_packet.pr.path = he.attached.path

C14_Witness ==
    /\ HeReturned
    /\ he.table_empty = "false"
    /\ he.came_through = "true"
    /\ he.slept = <<2, 1, 2>>

\* C15: handle_send_external reads packet->pr (path, len) only while it is not
\* yet freed, nothing of the handler runs on it after packet_route_free, and the
\* return packet's path buffer is another buffer than packet->pr->path, still
\* allocated after packet->pr is freed.
C15_NoUseAfterFree ==
    op = "hse" =>
        /\ pc \in {"hse_reverse", "hse_init_route"} =>
              (mem[packet.pr.path].live /\ pr_free_calls = <<>>)
        /\ pr_free_calls # <<>> => pc \in {"hse_close", "done"}
        /\ internal_packet.pr.set =>
              /\ internal_packet.pr.path # packet.pr.path
              /\ mem[internal_packet.pr.path].live
        /\ \A i \in DOMAIN send_calls :
              /\ send_calls[i].packet.pr.path # packet.pr.path
              /\ mem[send_calls[i].packet.pr.path].live

C15_Witness ==
    /\ HseReturned
    /\ send_calls # <<>>
    /\ pr_free_calls = <<packet.pr.path>>
    /\ ~mem[packet.pr.path].live
    /\ mem[send_calls[1].packet.pr.path].live

\* C16: whenever handle_send_external addresses the return packet to path[step],
\* step is an index of the path (step < len).
C16_StepInBounds ==
    \A i \in DOMAIN send_calls :
        /\ send_calls[i].in_bounds
        /\ send_calls[i].packet.pr.step < Len(send_calls[i].path)

\* C17: the response packet is wrapped, read for logging and handed to send_func
\* only if it was created: no NULL ret_packet is wrapped, dereferenced or sent.
C17_NoNullResponse ==
    op = "hse" =>
        /\ pc # "crashed"
        /\ pc \in {"hse_init_route", "hse_log", "hse_send_func"} => ~ret_packet.null
        /\ internal_packet.made => ~internal_packet.payload.null
        /\ \A i \in DOMAIN send_calls : ~send_calls[i].packet.payload.null

\* C18: when handle_external returns, on whichever path, the client connection
\* has been shut down and closed exactly once and the thread data freed exactly once.
C18_ConnectionReleasedOnEveryExit ==
    HeReturned => (he.shutdowns = 1 /\ he.closes = 1 /\ he.frees = 1)

\* C19: if the first recv of handle_external returns 0 or an error, no internal
\* packet is made, the routing table is not consulted, use_packet_route, send_bogo
\* and propagate_failure are not invoked, and the connection is shut down and closed.
C19_AbortOnFailedRead ==
    (op = "he" /\ he.bytes_read = "none") =>
        /\ pc \in {"he_cleanup", "done"}
        /\ ~internal_packet.made
        /\ he.table_empty = "none"
        /\ he.trace = <<>>
        /\ mem = <<>>
        /\ pc = "done" => (he.shutdowns = 1 /\ he.closes = 1)

C19_Witness ==
    /\ HeReturned
    /\ he.bytes_read = "none"
    /\ he.closes = 1
    /\ he.trace = <<>>

====
